---- MODULE Spec2Model ----
(***************************************************************************)
(* Model of the waypoint-plugin-s3 components: the ConfigSet validators of *)
(* builder, registry and platform, and the actions Builder.build,          *)
(* Registry.push and Platform.deploy driven by the host in that order.     *)
(* External calls (Docker, filesystem, S3) are modelled by their outcome,  *)
(* chosen nondeterministically, and logged in `trace`.                     *)
(***************************************************************************)
EXTENDS Integers, Sequences, FiniteSets, TLC

VARIABLES
  bcfg,        \* Builder.config
  rcfg,        \* Registry.config
  pcfg,        \* Platform.config
  configured,  \* components whose ConfigSet(&config) returned nil
  last,        \* the last ConfigSet call: component, argument, config before, error
  pc,          \* position of the running action
  trace,       \* external and UI calls of the current pipeline run, in order
  steps,       \* status of each step added to the step group
  step,        \* the local variable `step` of build (index into steps, 0: unset)
  defers,      \* deferred calls of the running function, last deferred at the end
  cid,         \* containerResp.ID
  destDir,     \* the temporary directory build created
  fs,          \* contents of the temporary directory
  bret,        \* what build returned
  pret,        \* what push returned
  objects,     \* the batch built by the walk of deploy
  uploaded,    \* indexes of `objects` that reached the bucket
  status,      \* text updates of deploy's terminal status
  dret         \* what deploy returned

vars == <<bcfg, rcfg, pcfg, configured, last, pc, trace, steps, step, defers,
          cid, destDir, fs, bret, pret, objects, uploaded, status, dret>>

cfgVars == <<bcfg, rcfg, pcfg, configured, last>>
buildVars == <<steps, step, defers, cid, destDir, fs, bret>>
deployVars == <<pret, objects, uploaded, status, dret>>

Nil == "nil"

\* ---------------------------------------------------------------- bounds
MaxDepth == 2     \* depth of the extracted directory tree
MaxEntries == 2   \* number of entries extracted into the temporary directory

\* ---------------------------------------------------------------- inputs
Names == <<"a", "b">>
NameSet == {Names[i] : i \in 1..Len(Names)}
ContainerIDs == {"c1", "c2"}
TempDirs == {"/tmp/waypoint-plugin-s3-1", "/tmp/waypoint-plugin-s3-2"}

BuildConfigs ==
  [type : {"BuildConfig"}, Source : {"", "/app/dist"}, OutputName : {"", "out"},
   Dockerfile : {"", "Dockerfile.ci"}]
RegistryConfigs ==
  [type : {"RegistryConfig"}, Name : {"", "site"}, Version : {"", "v1"}]
DeployConfigs ==
  [type : {"DeployConfig"}, Region : {"", "us-east-1"}, BucketName : {"", "bkt"}]
NilArg == [type |-> Nil]
ConfigArgs == BuildConfigs \cup RegistryConfigs \cup DeployConfigs \cup {NilArg}

\* ------------------------------------------------------------ ConfigSet
\* The error each ConfigSet returns for argument c (Nil: no error).
BuilderConfigSetErr(c) ==
  IF c.type # "BuildConfig" THEN "expected *BuildConfig as parameter"
  ELSE Nil

\* Faulty variant: Version is validated as well.
RegistryConfigSetErrVersion(c) ==
  IF c.type # "RegistryConfig" THEN "expected *RegisterConfig as parameter"
  ELSE IF c.Name = "" THEN "name must be set to a valid directory"
  ELSE IF c.Version = "" THEN "version must be set"
  ELSE Nil

RegistryConfigSetErr(c) ==
  IF c.type # "RegistryConfig" THEN "expected *RegisterConfig as parameter"
  ELSE IF c.Name = "" THEN "name must be set to a valid directory"
  ELSE Nil

\* Faulty variant: the bucket_name check is missing.
PlatformConfigSetErrNoBucket(c) ==
  IF c.type # "DeployConfig" THEN "expected *DeployConfig as parameter"
  ELSE IF c.Region = "" THEN "region must be set to a valid AWS region"
  ELSE Nil

PlatformConfigSetErr(c) ==
  IF c.type # "DeployConfig" THEN "expected *DeployConfig as parameter"
  ELSE IF c.Region = "" THEN "region must be set to a valid AWS region"
  ELSE IF c.BucketName = "" THEN "bucket_name must be set to a valid S3 bucket"
  ELSE Nil

\* The stored config after ConfigSet(c): no ConfigSet assigns to it.
BuilderConfigAfter(cfg, c) == cfg
RegistryConfigAfter(cfg, c) == cfg
PlatformConfigAfter(cfg, c) == cfg

NoCall == [comp |-> Nil, arg |-> NilArg, before |-> NilArg, err |-> Nil]

Idle == pc = "idle"

\* The host decodes the HCL body into the struct Config() points to.
HostDecode ==
  /\ Idle
  /\ \E comp \in {"builder", "registry", "platform"} :
       /\ \/ comp = "builder" /\ \E c \in BuildConfigs : bcfg' = c
             /\ UNCHANGED <<rcfg, pcfg>>
          \/ comp = "registry" /\ \E c \in RegistryConfigs : rcfg' = c
             /\ UNCHANGED <<bcfg, pcfg>>
          \/ comp = "platform" /\ \E c \in DeployConfigs : pcfg' = c
             /\ UNCHANGED <<bcfg, rcfg>>
       /\ configured' = configured \ {comp}
  /\ last' = NoCall
  /\ UNCHANGED <<pc, trace, buildVars, deployVars>>

\* self: the call the host makes, ConfigSet(&config); otherwise any argument.
BuilderConfigSet ==
  /\ Idle
  /\ \E self \in BOOLEAN, a \in ConfigArgs :
       LET c == IF self THEN bcfg ELSE a
           err == BuilderConfigSetErr(c) IN
       /\ bcfg' = BuilderConfigAfter(bcfg, c)
       /\ last' = [comp |-> "builder", arg |-> c, before |-> bcfg, err |-> err]
       /\ configured' = IF self /\ err = Nil THEN configured \cup {"builder"}
                        ELSE configured
  /\ UNCHANGED <<rcfg, pcfg, pc, trace, buildVars, deployVars>>

RegistryConfigSet ==
  /\ Idle
  /\ \E self \in BOOLEAN, a \in ConfigArgs :
       LET c == IF self THEN rcfg ELSE a
           err == RegistryConfigSetErr(c) IN
       /\ rcfg' = RegistryConfigAfter(rcfg, c)
       /\ last' = [comp |-> "registry", arg |-> c, before |-> rcfg, err |-> err]
       /\ configured' = IF self /\ err = Nil THEN configured \cup {"registry"}
                        ELSE configured
  /\ UNCHANGED <<bcfg, pcfg, pc, trace, buildVars, deployVars>>

PlatformConfigSet ==
  /\ Idle
  /\ \E self \in BOOLEAN, a \in ConfigArgs :
       LET c == IF self THEN pcfg ELSE a
           err == PlatformConfigSetErr(c) IN
       /\ pcfg' = PlatformConfigAfter(pcfg, c)
       /\ last' = [comp |-> "platform", arg |-> c, before |-> pcfg, err |-> err]
       /\ configured' = IF self /\ err = Nil THEN configured \cup {"platform"}
                        ELSE configured
  /\ UNCHANGED <<bcfg, rcfg, pc, trace, buildVars, deployVars>>

\* ------------------------------------------------------------- terminal UI
Ev(op, ok, arg) == [op |-> op, ok |-> ok, arg |-> arg]
Log(e) == trace' = Append(trace, e)

\* Step.Done and Step.Abort of the SDK: both finalise a running step and
\* leave a finalised one as it is.
StepDone(ss, i) == IF ss[i] = "running" THEN [ss EXCEPT ![i] = "done"] ELSE ss
StepAbort(ss, i) == IF ss[i] = "running" THEN [ss EXCEPT ![i] = "aborted"] ELSE ss

Defer(call, arg) == defers' = Append(defers, [call |-> call, arg |-> arg])

\* return nil, err: the deferred calls run before the caller sees the result.
ReturnErr(msg) == /\ bret' = [zip |-> Nil, err |-> msg]
                  /\ pc' = "b_unwind"

\* -------------------------------------------------------------- filesystem
Paths == UNION {[1..n -> NameSet] : n \in 1..MaxDepth}
Kinds == {"file", "dir", "linkdir", "broken", "noopen", "noread", "direrr"}
Front(p) == SubSeq(p, 1, Len(p) - 1)
EmptyFs == [p \in Paths |-> "absent"]
Addable(t) == {p \in Paths : /\ t[p] = "absent"
                             /\ Len(p) = 1 \/ t[Front(p)] = "dir"}
RECURSIVE TreesUpTo(_)
TreesUpTo(n) ==
  IF n = 0 THEN {EmptyFs}
  ELSE LET S == TreesUpTo(n - 1) IN
       S \cup {[pk[1] EXCEPT ![pk[2]] = pk[3]] : pk \in
                 UNION {{<<t, p, k>> : p \in Addable(t), k \in Kinds} : t \in S}}
Trees == TreesUpTo(MaxEntries)

\* ------------------------------------------------------------ Builder.build
StepName(label) ==
  CASE label = "b_add1" -> "Building image..."
    [] label = "b_add2" -> "Running container..."
    [] label = "b_add3" -> "Extracing assets..."
    [] label = "b_add4" -> "Shutting down container..."
AfterAdd(label) ==
  CASE label = "b_add1" -> "b_writers"
    [] label = "b_add2" -> "b_create"
    [] label = "b_add3" -> "b_copy"
    [] label = "b_add4" -> "b_remove"
AfterDone(label) ==
  CASE label = "b_done1" -> "b_add2"
    [] label = "b_done2" -> "b_add3"
    [] label = "b_done3" -> "b_add4"
    [] label = "b_done4" -> "b_return"

AllConfigured == configured = {"builder", "registry", "platform"}

\* sg := ui.StepGroup(); defer sg.Wait(); client.NewClientWithOpts(...)
BuildNewClient ==
  /\ Idle /\ AllConfigured
  /\ \E ok \in BOOLEAN :
       /\ trace' = <<Ev("NewClient", ok, Nil)>>
       /\ defers' = <<[call |-> "Wait", arg |-> 0]>>
       /\ IF ok THEN pc' = "b_add1" /\ bret' = bret
          ELSE ReturnErr("unable to create Docker client")
  /\ last' = NoCall
  /\ UNCHANGED <<bcfg, rcfg, pcfg, configured>>
  /\ UNCHANGED <<steps, step, cid, destDir, fs, deployVars>>

\* step = sg.Add(...); defer step.Abort()
BuildStepAdd ==
  /\ pc \in {"b_add1", "b_add2", "b_add3", "b_add4"}
  /\ steps' = Append(steps, "running")
  /\ step' = Len(steps) + 1
  /\ Defer("Abort", Len(steps) + 1)
  /\ Log(Ev("Add", TRUE, StepName(pc)))
  /\ pc' = AfterAdd(pc)
  /\ UNCHANGED <<cfgVars, cid, destDir, fs, bret, deployVars>>

\* step.Done()
BuildStepDone ==
  /\ pc \in {"b_done1", "b_done2", "b_done3", "b_done4"}
  /\ steps' = StepDone(steps, step)
  /\ Log(Ev("Done", TRUE, step))
  /\ pc' = AfterDone(pc)
  /\ UNCHANGED <<cfgVars, step, defers, cid, destDir, fs, bret, deployVars>>

\* stdout, _, err := ui.OutputWriters()
BuildOutputWriters ==
  /\ pc = "b_writers"
  /\ \E ok \in BOOLEAN :
       /\ Log(Ev("OutputWriters", ok, Nil))
       /\ IF ok THEN pc' = "b_tar" /\ bret' = bret
          ELSE ReturnErr("output writers")
  /\ UNCHANGED <<cfgVars, steps, step, defers, cid, destDir, fs, deployVars>>

\* buildCtx, err := archive.TarWithOptions(src.Path, ...)
BuildTar ==
  /\ pc = "b_tar"
  /\ \E ok \in BOOLEAN :
       /\ Log(Ev("TarWithOptions", ok, Nil))
       /\ IF ok THEN pc' = "b_imagebuild" /\ bret' = bret
          ELSE ReturnErr("tar build context")
  /\ UNCHANGED <<cfgVars, steps, step, defers, cid, destDir, fs, deployVars>>

\* The Dockerfile option: b.config.Dockerfile, "Dockerfile" when empty.
DockerfileOpt == IF bcfg.Dockerfile = "" THEN "Dockerfile" ELSE bcfg.Dockerfile

\* Faulty variant: the error of ImageBuild is not checked.
BuildImageBuildUnchecked ==
  /\ pc = "b_imagebuild"
  /\ \E ok \in BOOLEAN : Log(Ev("ImageBuild", ok, DockerfileOpt))
  /\ pc' = "b_stream" /\ bret' = bret
  /\ Defer("CloseBody", 0)
  /\ UNCHANGED <<cfgVars, steps, step, cid, destDir, fs, deployVars>>

\* resp, err := dockerClient.ImageBuild(ctx, buildCtx, opts); defer resp.Body.Close()
BuildImageBuild ==
  /\ pc = "b_imagebuild"
  /\ \E ok \in BOOLEAN :
       /\ Log(Ev("ImageBuild", ok, DockerfileOpt))
       /\ IF ok THEN /\ pc' = "b_stream" /\ bret' = bret
                     /\ Defer("CloseBody", 0)
          ELSE ReturnErr("image build") /\ defers' = defers
  /\ UNCHANGED <<cfgVars, steps, step, cid, destDir, fs, deployVars>>

\* jsonmessage.DisplayJSONMessagesStream(resp.Body, step.TermOutput(), ...)
BuildStreamLogs ==
  /\ pc = "b_stream"
  /\ \E ok \in BOOLEAN :
       /\ Log(Ev("DisplayJSONMessagesStream", ok, Nil))
       /\ IF ok THEN pc' = "b_done1" /\ bret' = bret
          ELSE ReturnErr("unable to stream build logs to the terminal")
  /\ UNCHANGED <<cfgVars, steps, step, defers, cid, destDir, fs, deployVars>>

\* Faulty variant: a failed ContainerCreate is tried again.
BuildContainerCreateRetry ==
  /\ pc = "b_create"
  /\ \/ /\ \E id \in ContainerIDs :
             /\ cid' = id
             /\ Log(Ev("ContainerCreate", TRUE, id))
        /\ pc' = "b_done2"
     \/ /\ Log(Ev("ContainerCreate", FALSE, Nil))
        /\ pc' = "b_create"
        /\ cid' = cid
  /\ UNCHANGED <<cfgVars, steps, step, defers, destDir, fs, bret, deployVars>>

\* containerResp, err := dockerClient.ContainerCreate(...)
BuildContainerCreate ==
  /\ pc = "b_create"
  /\ \/ /\ \E id \in ContainerIDs :
             /\ cid' = id
             /\ Log(Ev("ContainerCreate", TRUE, id))
        /\ pc' = "b_done2" /\ bret' = bret
     \/ /\ Log(Ev("ContainerCreate", FALSE, Nil))
        /\ ReturnErr("unable to create Docker container")
        /\ cid' = cid
  /\ UNCHANGED <<cfgVars, steps, step, defers, destDir, fs, deployVars>>

\* content, stat, err := dockerClient.CopyFromContainer(ctx, containerResp.ID,
\* b.config.Source); defer content.Close()
BuildCopyFromContainer ==
  /\ pc = "b_copy"
  /\ \E ok \in BOOLEAN :
       /\ Log(Ev("CopyFromContainer", ok, cid))
       /\ IF ok THEN /\ pc' = "b_mkdir" /\ bret' = bret
                     /\ Defer("CloseContent", 0)
          ELSE /\ ReturnErr("unable to copy assets from Docker container")
               /\ defers' = defers
  /\ UNCHANGED <<cfgVars, steps, step, cid, destDir, fs, deployVars>>

\* destDir, err := os.MkdirTemp("", "waypoint-plugin-s3")
BuildMkdirTemp ==
  /\ pc = "b_mkdir"
  /\ \/ /\ \E d \in TempDirs : destDir' = d /\ Log(Ev("MkdirTemp", TRUE, d))
        /\ fs' = EmptyFs
        /\ pc' = "b_copyto" /\ bret' = bret
     \/ /\ Log(Ev("MkdirTemp", FALSE, Nil))
        /\ ReturnErr("unable to create tmp directory")
        /\ UNCHANGED <<destDir, fs>>
  /\ UNCHANGED <<cfgVars, steps, step, defers, cid, deployVars>>

\* archive.CopyTo(content, srcInfo, destDir): the error is dropped; a failed
\* extraction leaves whatever it had written.
BuildCopyTo ==
  /\ pc = "b_copyto"
  /\ \E ok \in BOOLEAN, t \in Trees :
       /\ fs' = t
       /\ Log(Ev("CopyTo", ok, destDir))
  /\ pc' = "b_done3"
  /\ UNCHANGED <<cfgVars, steps, step, defers, cid, destDir, bret, deployVars>>

\* dockerClient.ContainerRemove(ctx, containerResp.ID, ...{Force: true}): the
\* error is dropped.
BuildContainerRemove ==
  /\ pc = "b_remove"
  /\ \E ok \in BOOLEAN : Log(Ev("ContainerRemove", ok, cid))
  /\ pc' = "b_done4"
  /\ UNCHANGED <<cfgVars, steps, step, defers, cid, destDir, fs, bret, deployVars>>

\* return &Zip{Path: destDir}, nil
BuildReturnZip ==
  /\ pc = "b_return"
  /\ bret' = [zip |-> destDir, err |-> Nil]
  /\ pc' = "b_unwind"
  /\ UNCHANGED <<cfgVars, trace, steps, step, defers, cid, destDir, fs, deployVars>>

\* Faulty variant: the deferred calls run in the order they were deferred.
BuildUnwindFifo ==
  /\ pc = "b_unwind"
  /\ LET d == defers[1] IN
       /\ steps' = IF d.call = "Abort" THEN StepAbort(steps, d.arg) ELSE steps
       /\ Log(Ev(d.call, TRUE, d.arg))
  /\ defers' = Tail(defers)
  /\ pc' = IF Len(defers) = 1 THEN "b_ret" ELSE "b_unwind"
  /\ UNCHANGED <<cfgVars, step, cid, destDir, fs, bret, deployVars>>

\* The deferred calls run last-deferred first; then build has returned.
BuildUnwind ==
  /\ pc = "b_unwind"
  /\ LET d == defers[Len(defers)] IN
       /\ steps' = IF d.call = "Abort" THEN StepAbort(steps, d.arg) ELSE steps
       /\ Log(Ev(d.call, TRUE, d.arg))
  /\ defers' = Front(defers)
  /\ pc' = IF Len(defers) = 1 THEN "b_ret" ELSE "b_unwind"
  /\ UNCHANGED <<cfgVars, step, cid, destDir, fs, bret, deployVars>>

\* ------------------------------------------------------------ Registry.push
\* Faulty variant: push returns a Zip without the path.
PushResultNoPath(binary) == [zip |-> "", err |-> Nil]

\* return &Zip{Path: binary.Path}, nil
PushResult(binary) == [zip |-> binary.zip, err |-> Nil]

RegistryPush ==
  /\ pc = "b_ret" /\ bret.err = Nil
  /\ trace' = <<Ev("Status", TRUE, "Pushing binary to registry")>>
  /\ pret' = PushResult(bret)
  /\ pc' = "p_ret"
  /\ steps' = <<>> /\ step' = 0 /\ cid' = Nil
  /\ UNCHANGED <<cfgVars, defers, destDir, fs, bret, objects, uploaded, status, dret>>

\* ---------------------------------------------------------- Platform.deploy
NameIdx(n) == CHOOSE i \in 1..Len(Names) : Names[i] = n

\* What os.Lstat sees at a path: only the directory build created exists.
Lstat(path) ==
  IF path[1] # destDir THEN "absent"
  ELSE IF Len(path) = 1 THEN "dir"
  ELSE IF Len(path) - 1 > MaxDepth THEN "absent"
  ELSE fs[Tail(path)]

\* Faulty variant: the key is the file's base name.
RelBase(base, path) == <<path[Len(path)]>>

\* filepath.Rel(base, path) for a path below base.
Rel(base, path) == SubSeq(path, Len(base) + 1, Len(path))

UploadInput(root, path, kind) ==
  [Key |-> Rel(root, path),
   Bucket |-> pcfg.BucketName,
   Body |-> IF kind = "noread" THEN "zeros" ELSE "content",
   ACL |-> "public-read"]

\* The callback deploy hands to filepath.Walk; acc is [objs, err].
WalkFn(root, path, walkErr, acc) ==
  LET kind == Lstat(path) IN
  IF walkErr THEN [acc EXCEPT !.err = "walk"]
  ELSE IF kind \in {"broken", "absent"} THEN [acc EXCEPT !.err = "stat"]
  ELSE IF kind \in {"dir", "direrr", "linkdir"} THEN acc
  ELSE IF kind = "noopen" THEN [acc EXCEPT !.err = "failed to open file"]
  ELSE [acc EXCEPT !.objs = Append(acc.objs, UploadInput(root, path, kind))]

\* filepath.Walk: the entry itself, then, for a directory, its names in
\* lexical order; the first error ends the walk.
RECURSIVE walk(_, _, _), walkNames(_, _, _, _)
walk(root, path, acc) ==
  LET kind == Lstat(path) IN
  IF kind = "absent" THEN WalkFn(root, path, TRUE, acc)
  ELSE IF kind \notin {"dir", "direrr"} THEN WalkFn(root, path, FALSE, acc)
  ELSE LET acc1 == WalkFn(root, path, kind = "direrr", acc) IN
       IF kind = "direrr" \/ acc1.err # Nil THEN acc1
       ELSE walkNames(root, path, 1, acc1)

walkNames(root, path, i, acc) ==
  IF i > Len(Names) \/ acc.err # Nil THEN acc
  ELSE LET child == Append(path, Names[i]) IN
       IF Lstat(child) = "absent" THEN walkNames(root, path, i + 1, acc)
       ELSE walkNames(root, path, i + 1, walk(root, child, acc))

Walk(root) == walk(<<root>>, <<root>>, [objs |-> <<>>, err |-> Nil])

\* u.Update("Deploy application"); session.Must(session.NewSession(...));
\* s3manager.NewUploader(sess)
DeployNewSession ==
  /\ pc = "p_ret" /\ pret.err = Nil
  /\ status' = Append(status, "Deploy application")
  /\ \E ok \in BOOLEAN :
       /\ trace' = <<Ev("NewSession", ok, pcfg.Region)>>
       /\ pc' = IF ok THEN "d_walk" ELSE "d_panic"
  /\ UNCHANGED <<cfgVars, buildVars, pret, objects, uploaded, dret>>

\* Faulty variant: the error of the walk is not checked.
DeployWalkUnchecked ==
  /\ pc = "d_walk"
  /\ LET w == Walk(pret.zip) IN
       /\ Log(Ev("Walk", w.err = Nil, pret.zip))
       /\ objects' = w.objs
  /\ pc' = "d_upload"
  /\ UNCHANGED <<cfgVars, buildVars, pret, uploaded, status, dret>>

\* err := filepath.Walk(zip.Path, ...); if err != nil { return nil, err }
DeployWalk ==
  /\ pc = "d_walk"
  /\ LET w == Walk(pret.zip) IN
       /\ Log(Ev("Walk", w.err = Nil, pret.zip))
       /\ objects' = w.objs
       /\ IF w.err = Nil THEN pc' = "d_upload" /\ dret' = dret
          ELSE pc' = "d_ret" /\ dret' = [deployment |-> Nil, err |-> w.err]
  /\ UNCHANGED <<cfgVars, buildVars, pret, uploaded, status>>

\* err = uploader.UploadWithIterator(ctx, iter): every object is attempted;
\* the call fails when some object did not reach the bucket.
DeployUpload ==
  /\ pc = "d_upload"
  /\ \E done \in SUBSET (1..Len(objects)) :
       LET ok == done = 1..Len(objects) IN
       /\ uploaded' = done
       /\ Log(Ev("UploadWithIterator", ok, Len(objects)))
       /\ IF ok THEN pc' = "d_deployed" /\ dret' = dret
          ELSE pc' = "d_ret" /\ dret' = [deployment |-> Nil, err |-> "upload"]
  /\ UNCHANGED <<cfgVars, buildVars, pret, objects, status>>

\* u.Update("Application deployed"); return &Deployment{}, nil
DeployReturn ==
  /\ pc = "d_deployed"
  /\ status' = Append(status, "Application deployed")
  /\ dret' = [deployment |-> "Deployment", err |-> Nil]
  /\ pc' = "d_ret"
  /\ UNCHANGED <<cfgVars, trace, buildVars, pret, objects, uploaded>>

\* ---------------------------------------------------------------- the host
NoRet == [zip |-> Nil, err |-> Nil]
NoDeploy == [deployment |-> Nil, err |-> Nil]

\* The run is over (an action returned an error, panicked, or deploy
\* returned); the host may run the pipeline again.
HostNextRun ==
  /\ pc \in {"b_ret", "p_ret", "d_ret", "d_panic"}
  /\ pc' = "idle"
  /\ trace' = <<>> /\ steps' = <<>> /\ step' = 0 /\ defers' = <<>>
  /\ cid' = Nil /\ destDir' = Nil /\ fs' = EmptyFs
  /\ bret' = NoRet /\ pret' = NoRet
  /\ objects' = <<>> /\ uploaded' = {} /\ status' = <<>> /\ dret' = NoDeploy
  /\ UNCHANGED cfgVars

\* Before the host has configured anything: the zero value of every struct.
ConfigInit ==
  /\ bcfg = [type |-> "BuildConfig", Source |-> "", OutputName |-> "", Dockerfile |-> ""]
  /\ rcfg = [type |-> "RegistryConfig", Name |-> "", Version |-> ""]
  /\ pcfg = [type |-> "DeployConfig", Region |-> "", BucketName |-> ""]
  /\ configured = {}
  /\ last = NoCall
  /\ pc = "idle"
  /\ trace = <<>> /\ steps = <<>> /\ step = 0 /\ defers = <<>>
  /\ cid = Nil /\ destDir = Nil /\ fs = EmptyFs
  /\ bret = NoRet /\ pret = NoRet
  /\ objects = <<>> /\ uploaded = {} /\ status = <<>> /\ dret = NoDeploy

ConfigNext ==
  \/ HostDecode
  \/ BuilderConfigSet
  \/ RegistryConfigSet
  \/ PlatformConfigSet

\* The configuration phase of the host.
ConfigSpec == ConfigInit /\ [][ConfigNext]_vars

\* The pipeline starts once every ConfigSet(&config) has returned nil.
\* build reads Source and Dockerfile only, so OutputName is fixed here.
RunBuildConfigs == {c \in BuildConfigs : c.OutputName = "out"}
RunRegistryConfigs == RegistryConfigs
RunDeployConfigs == DeployConfigs

Init ==
  /\ bcfg \in RunBuildConfigs /\ BuilderConfigSetErr(bcfg) = Nil
  /\ rcfg \in RunRegistryConfigs /\ RegistryConfigSetErr(rcfg) = Nil
  /\ pcfg \in RunDeployConfigs /\ PlatformConfigSetErr(pcfg) = Nil
  /\ configured = {"builder", "registry", "platform"}
  /\ last = NoCall
  /\ pc = "idle"
  /\ trace = <<>> /\ steps = <<>> /\ step = 0 /\ defers = <<>>
  /\ cid = Nil /\ destDir = Nil /\ fs = EmptyFs
  /\ bret = NoRet /\ pret = NoRet
  /\ objects = <<>> /\ uploaded = {} /\ status = <<>> /\ dret = NoDeploy

Next ==
  \/ BuildNewClient
  \/ BuildStepAdd
  \/ BuildOutputWriters
  \/ BuildTar
  \/ BuildImageBuild
  \/ BuildStreamLogs
  \/ BuildStepDone
  \/ BuildContainerCreate
  \/ BuildCopyFromContainer
  \/ BuildMkdirTemp
  \/ BuildCopyTo
  \/ BuildContainerRemove
  \/ BuildReturnZip
  \/ BuildUnwind
  \/ RegistryPush
  \/ DeployNewSession
  \/ DeployWalk
  \/ DeployUpload
  \/ DeployReturn
  \/ HostNextRun

Spec == Init /\ [][Next]_vars

\* ================================================================ properties
Events(op) == {i \in 1..Len(trace) : trace[i].op = op}
Happened(op) == Events(op) # {}
Succeeded(op) == \E i \in Events(op) : trace[i].ok
Failed(op) == \E i \in Events(op) : ~trace[i].ok

RegionMsg == "region must be set to a valid AWS region"

\* C1: Platform.ConfigSet, given a *DeployConfig, returns an error exactly
\* when Region or BucketName is empty (the Region error when Region is
\* empty), given any other type returns an error, and never changes the
\* Platform's stored config.
C1_PlatformConfigSet ==
  last.comp = "platform" =>
    /\ last.arg.type = "DeployConfig" =>
         /\ last.err # Nil <=> (last.arg.Region = "" \/ last.arg.BucketName = "")
         /\ last.arg.Region = "" => last.err = RegionMsg
    /\ last.arg.type # "DeployConfig" => last.err # Nil
    /\ pcfg = last.before

\* ConfigSet was given a config with both fields empty and reported Region.
C1_Witness ==
  /\ last.comp = "platform" /\ last.arg.type = "DeployConfig"
  /\ last.arg.Region = "" /\ last.arg.BucketName = ""
  /\ last.err = RegionMsg
  /\ pcfg.Region # ""

OwnType(comp) ==
  CASE comp = "builder" -> "BuildConfig"
    [] comp = "registry" -> "RegistryConfig"
    [] comp = "platform" -> "DeployConfig"
AnyFieldEmpty(c) == \E f \in DOMAIN c : c[f] = ""

\* C2 (as stated): every ConfigSet returns an error for a config of its own
\* type in which any field is empty.
C2_Original ==
  (last.comp # Nil /\ last.arg.type = OwnType(last.comp) /\ AnyFieldEmpty(last.arg))
    => last.err # Nil

\* C2 (amended): Platform.ConfigSet returns an error when Region or
\* BucketName is empty; Registry.ConfigSet returns an error exactly when Name
\* is empty, whatever Version is; Builder.ConfigSet returns nil for every
\* *BuildConfig, whatever its fields are.
C2_Amended ==
  (last.comp # Nil /\ last.arg.type = OwnType(last.comp)) =>
    /\ last.comp = "platform" => (AnyFieldEmpty(last.arg) => last.err # Nil)
    /\ last.comp = "registry" => (last.err # Nil <=> last.arg.Name = "")
    /\ last.comp = "builder" => last.err = Nil

\* Registry.ConfigSet accepted a config with an empty Version.
C2_Witness ==
  /\ last.comp = "registry" /\ last.arg.type = "RegistryConfig"
  /\ last.arg.Name # "" /\ last.arg.Version = ""
  /\ last.err = Nil

BuildOrder ==
  <<"NewClient", "ImageBuild", "ContainerCreate", "CopyFromContainer", "ContainerRemove">>

\* C3: in build the operations create client, build image, create container,
\* copy from container, remove container start only after every earlier one
\* of this order has started and returned without error, and a build that
\* returns a Zip has performed all five.
C3_BuildOrder ==
  /\ \A k \in 1..Len(BuildOrder) : \A i \in Events(BuildOrder[k]) :
       \A j \in 1..(k - 1) :
         \E h \in Events(BuildOrder[j]) : h < i /\ trace[h].ok
  /\ (pc = "b_ret" /\ bret.zip # Nil) =>
       \A k \in 1..Len(BuildOrder) : Happened(BuildOrder[k])

\* build returned a Zip after the container was removed.
C3_Witness ==
  /\ pc = "b_ret" /\ bret.zip # Nil /\ bret.err = Nil
  /\ Happened("ContainerRemove") /\ Succeeded("CopyFromContainer")

BuildCalls ==
  {"NewClient", "OutputWriters", "TarWithOptions", "ImageBuild",
   "DisplayJSONMessagesStream", "ContainerCreate", "CopyFromContainer",
   "MkdirTemp", "CopyTo", "ContainerRemove"}

\* C4 (as stated): when any external call of build or deploy fails, the
\* action returns a nil result and a non-nil error.
C4_Claim ==
  /\ (pc = "b_ret" /\ \E op \in BuildCalls : Failed(op))
       => (bret.zip = Nil /\ bret.err # Nil)
  /\ (pc = "d_ret" /\ (Failed("Walk") \/ Failed("UploadWithIterator")
                       \/ \E i \in 1..Len(objects) : objects[i].Body = "zeros"))
       => (dret.deployment = Nil /\ dret.err # Nil)

SdkOps ==
  {"NewClient", "NewSession", "ImageBuild", "ContainerCreate", "CopyFromContainer",
   "ContainerRemove", "UploadWithIterator"}

\* C5: within one invocation each SDK operation is invoked at most once, and
\* after one of them failed no SDK operation is invoked.
C5_NoRetry ==
  \A i, j \in 1..Len(trace) :
    (i < j /\ trace[i].op \in SdkOps /\ trace[j].op \in SdkOps) =>
      (trace[i].op # trace[j].op /\ trace[i].ok)

\* build returned after CopyFromContainer failed.
C5_Witness ==
  /\ pc = "b_ret" /\ Failed("CopyFromContainer")
  /\ Succeeded("ContainerCreate") /\ bret.err # Nil

AfterPush == pc \in {"p_ret", "d_walk", "d_upload", "d_deployed", "d_ret", "d_panic"}

\* C6: push returns no error and a Zip with the Path of the builder's Zip;
\* so the directory deploy walks is the temporary directory build created.
C6_PushPath ==
  /\ AfterPush => (pret.err = Nil /\ pret.zip = bret.zip /\ pret.zip = destDir
                   /\ destDir \in TempDirs)
  /\ \A i \in Events("Walk") : trace[i].arg = destDir /\ destDir \in TempDirs

\* deploy walked the directory build had created and found a file in it.
C6_Witness ==
  /\ pc = "d_upload" /\ Succeeded("Walk")
  /\ bret.zip = destDir /\ Len(objects) > 0

Present == {p \in Paths : fs[p] # "absent"}
IsPrefix(p, q) == Len(p) < Len(q) /\ SubSeq(q, 1, Len(p)) = p
\* p is met before q by a walk in lexical order
WalkedBefore(p, q) ==
  \/ IsPrefix(p, q)
  \/ \E i \in 1..Len(p) :
       /\ i <= Len(q)
       /\ \A j \in 1..(i - 1) : p[j] = q[j]
       /\ NameIdx(p[i]) < NameIdx(q[i])

\* The batch has one object for each entry that is not in `dirs`, in walk
\* order, keyed by the relative path, in the configured bucket, public-read.
BatchIs(dirs) ==
  /\ \A p \in Present :
       fs[p] \notin dirs => Cardinality({i \in 1..Len(objects) : objects[i].Key = p}) = 1
  /\ \A i \in 1..Len(objects) :
       /\ objects[i].Key \in Present /\ fs[objects[i].Key] \notin dirs
       /\ objects[i].Bucket = pcfg.BucketName
       /\ objects[i].ACL = "public-read"
  /\ \A i, j \in 1..Len(objects) : i < j => WalkedBefore(objects[i].Key, objects[j].Key)

\* C7 (as stated): after a walk without error the batch has exactly one
\* object for each non-directory entry under zip.Path and none for
\* directories, in walk order, with Key the relative path, Bucket the
\* configured BucketName and ACL public-read.
C7_Original == Succeeded("Walk") => BatchIs({"dir", "direrr"})

\* C7 (amended): the same with `directory` as os.Stat reports it: a symbolic
\* link to a directory gets no object either.
C7_Amended == Succeeded("Walk") => BatchIs({"dir", "direrr", "linkdir"})

\* the walk passed a symbolic link to a directory and a file.
C7_Witness ==
  /\ Succeeded("Walk") /\ Len(objects) = 1
  /\ \E p \in Present : fs[p] = "linkdir"

\* C8: the upload starts only after the walk finished without error; when
\* the walk fails nothing is uploaded and deploy returns (nil, error);
\* "Application deployed" is reported and a Deployment returned only after
\* the upload returned without error.
C8_UploadAfterWalk ==
  /\ \A i \in Events("UploadWithIterator") :
       \E j \in Events("Walk") : j < i /\ trace[j].ok
  /\ Failed("Walk") =>
       /\ uploaded = {} /\ ~Happened("UploadWithIterator")
       /\ pc = "d_ret" /\ dret.deployment = Nil /\ dret.err # Nil
  /\ (\E i \in 1..Len(status) : status[i] = "Application deployed")
       => Succeeded("UploadWithIterator")
  /\ dret.deployment # Nil => Succeeded("UploadWithIterator")

\* the walk met an entry it could not stat or open, and deploy returned.
C8_Witness ==
  /\ pc = "d_ret" /\ Failed("Walk") /\ Present # {}
  /\ dret.deployment = Nil /\ dret.err \in {"stat", "failed to open file"}

\* C9 (as stated): on every return of build after ContainerCreate succeeded,
\* ContainerRemove has been invoked for that container.
C9_Claim ==
  pc = "b_ret" =>
    \A i \in Events("ContainerCreate") :
      trace[i].ok => \E j \in Events("ContainerRemove") : trace[j].arg = trace[i].arg

Running == {i \in 1..Len(steps) : steps[i] = "running"}

\* C10: in build at most one step is unfinalised at any time, a step is Done
\* before the next is added, every step is finalised when build returns (the
\* one in progress at a failure is Aborted), and Wait runs after all the
\* deferred Aborts.
C10_Steps ==
  /\ Cardinality(Running) <= 1
  /\ \A i \in 1..(Len(steps) - 1) : steps[i] = "done"
  /\ pc = "b_ret" =>
       /\ Running = {}
       /\ (bret.err # Nil /\ steps # <<>>) => steps[Len(steps)] = "aborted"
       /\ bret.err = Nil => \A i \in 1..Len(steps) : steps[i] = "done"
       /\ Happened("Wait")
  /\ \A i \in Events("Wait") :
       /\ i = Len(trace) /\ defers = <<>>
       /\ Cardinality(Events("Abort")) = Cardinality(Events("Add"))

\* build failed while extracting: two steps done, the third aborted.
C10_Witness ==
  /\ pc = "b_ret" /\ bret.err # Nil
  /\ Len(steps) = 3 /\ steps[3] = "aborted" /\ steps[2] = "done"
  /\ Happened("Wait")

====
